---------------------------- MODULE Spec2Model ----------------------------
(***************************************************************************)
(* Session / command lifecycle of the terminal front end (the first App    *)
(* component of src/unnamed/part_000, lines 1-451).                        *)
(*                                                                         *)
(* Strings are sequences of one-character strings, so that trim, prefix    *)
(* and concatenation are computed and not assumed.  Every event handler    *)
(* and every continuation of the async executeCommand is one atomic step   *)
(* (single JavaScript thread, React state committed before the next        *)
(* event).  The `disabled` attribute of the input element is markup and    *)
(* is not modelled: a handler can run whenever its own code lets it.       *)
(* A handler that returns without a state update is a stuttering step.     *)
(***************************************************************************)
EXTENDS Integers, Sequences, FiniteSets, TLC

(***************************************************************************)
(* Bounds of the model.                                                    *)
(***************************************************************************)
MaxSessions == 2
MaxEntries == 3

(***************************************************************************)
(* Program constants.                                                      *)
(***************************************************************************)
HISTORY_CAP == 50

VARIABLES
  sessions,            \* useState<TerminalSession[]>
  activeSessionId,     \* useState<string>
  currentCommand,      \* useState: the pending-input buffer
  isLoading,           \* useState: the busy flag
  commandHistory,      \* useState<string[]>
  historyIndex,        \* useState: the recall cursor
  abortControllerRef,  \* useRef<AbortController | null>, a controller named by its call
  calls,               \* the executeCommand invocations suspended at their await
  localStorage         \* the durable key-value storage: a function on the keys set

vars == <<sessions, activeSessionId, currentCommand, isLoading, commandHistory,
          historyIndex, abortControllerRef, calls, localStorage>>

(***************************************************************************)
(* Strings.                                                                *)
(***************************************************************************)
EMPTY == <<>>
CLEAR == <<"c", "l", "e", "a", "r">>
PROMPT == <<"$", " ">>
CTRL_C == <<"^", "C">>
FAILED_PREFIX == <<"Failed to execute command: ">>
NET_MESSAGE == <<"Failed to fetch">>
HTTP_MESSAGE == <<"HTTP 500: Internal Server Error">>
SYNTAX_MESSAGE == <<"Unexpected token">>

Min(a, b) == IF a < b THEN a ELSE b

RECURSIVE TrimStart(_)
TrimStart(s) ==
  IF s # <<>> /\ Head(s) = " " THEN TrimStart(Tail(s)) ELSE s

RECURSIVE TrimEnd(_)
TrimEnd(s) ==
  IF s # <<>> /\ s[Len(s)] = " " THEN TrimEnd(SubSeq(s, 1, Len(s) - 1)) ELSE s

Trim(s) == TrimEnd(TrimStart(s))

DIGITS == <<"0", "1", "2", "3", "4", "5", "6", "7", "8", "9">>

RECURSIVE toString(_)
toString(n) ==
  IF n < 10 THEN <<DIGITS[n + 1]>>
  ELSE toString(n \div 10) \o <<DIGITS[(n % 10) + 1]>>

(***************************************************************************)
(* Inputs of the environment: what the user can have in the input line and *)
(* what the execution service can answer.                                  *)
(***************************************************************************)
Inputs == {<<"a">>, <<" ">> \o CLEAR}

\* Readings of Date.now(): a wall clock, which may repeat a reading.
ClockReadings == {2}

Results ==
  [error : {EMPTY, <<"x">>},
   stdout : {EMPTY, <<" ", "o">>},
   stderr : {EMPTY, <<"e", " ">>}]

(***************************************************************************)
(* Data model.                                                             *)
(***************************************************************************)
TerminalEntry(type, content) == [type |-> type, content |-> content]

TerminalSession(id, name, history) == [id |-> id, name |-> name, history |-> history]

\* A suspended executeCommand: the activeSessionId and the command its closure
\* captured, and whether its controller's signal is aborted.  Calls that agree
\* on all three behave alike and are kept once.
Call(sid, command, aborted) == [sid |-> sid, command |-> command, aborted |-> aborted]

\* The AbortController created for a call; null is the controller of no call.
Controller(sid, command) == [set |-> TRUE, sid |-> sid, command |-> command]

null == [set |-> FALSE, sid |-> EMPTY, command |-> EMPTY]

\* controller.abort(): the pending call that holds this controller's signal
\* becomes aborted; a controller whose call has settled aborts nothing.
abort(cs, controller) ==
  {IF c.sid = controller.sid /\ c.command = controller.command /\ ~c.aborted
   THEN Call(c.sid, c.command, TRUE) ELSE c : c \in cs}

find(ss, id) == {i \in 1..Len(ss) : ss[i].id = id}

activeSession == find(sessions, activeSessionId)

RECURSIVE TotalEntries(_)
TotalEntries(ss) ==
  IF ss = <<>> THEN 0 ELSE Len(Head(ss).history) + TotalEntries(Tail(ss))

(***************************************************************************)
(* State updaters.                                                         *)
(***************************************************************************)
\* Mutant of updateSessionHistory: the new entry is put in front.
updateSessionHistory_Prepends(ss, sessionId, newEntry) ==
  [i \in 1..Len(ss) |->
     IF ss[i].id = sessionId
     THEN [ss[i] EXCEPT !.history = <<newEntry>> \o @]
     ELSE ss[i]]

updateSessionHistory(ss, sessionId, newEntry) ==
  [i \in 1..Len(ss) |->
     IF ss[i].id = sessionId
     THEN [ss[i] EXCEPT !.history = Append(@, newEntry)]
     ELSE ss[i]]

\* Mutant of clearTerminal: every scrollback is emptied, not only the active one.
clearTerminal_ClearsAll(ss, active) ==
  [i \in 1..Len(ss) |-> [ss[i] EXCEPT !.history = <<>>]]

clearTerminal(ss, active) ==
  [i \in 1..Len(ss) |->
     IF ss[i].id = active THEN [ss[i] EXCEPT !.history = <<>>] ELSE ss[i]]

\* Mutant of pushCommandHistory: the list is not cut at HISTORY_CAP.
pushCommandHistory_NoCap(prev, command) ==
  <<command>> \o SelectSeq(prev, LAMBDA cmd : cmd # command)

\* Mutant of pushCommandHistory: an earlier occurrence of the command stays.
pushCommandHistory_KeepsDuplicate(prev, command) ==
  LET all == <<command>> \o prev
  IN  SubSeq(all, 1, Min(HISTORY_CAP, Len(all)))

pushCommandHistory(prev, command) ==
  LET all == <<command>> \o SelectSeq(prev, LAMBDA cmd : cmd # command)
  IN  SubSeq(all, 1, Min(HISTORY_CAP, Len(all)))

(***************************************************************************)
(* JSON text of the session collection: a flat sequence of tokens.         *)
(***************************************************************************)
Tok(k, v) == [k |-> k, v |-> v]

RECURSIVE stringifyEntries(_)
stringifyEntries(h) ==
  IF h = <<>> THEN <<>>
  ELSE <<Tok("{", EMPTY), Tok("s", <<Head(h).type>>), Tok("s", Head(h).content),
         Tok("}", EMPTY)>> \o stringifyEntries(Tail(h))

RECURSIVE stringifySessions(_)
stringifySessions(ss) ==
  IF ss = <<>> THEN <<>>
  ELSE <<Tok("{", EMPTY), Tok("s", Head(ss).id), Tok("s", Head(ss).name),
         Tok("[", EMPTY)>>
       \o stringifyEntries(Head(ss).history)
       \o <<Tok("]", EMPTY), Tok("}", EMPTY)>>
       \o stringifySessions(Tail(ss))

JSONstringify(ss) == <<Tok("[", EMPTY)>> \o stringifySessions(ss) \o <<Tok("]", EMPTY)>>

RECURSIVE parseEntries(_, _, _)
parseEntries(t, i, acc) ==
  IF t[i].k = "]" THEN [val |-> acc, next |-> i + 1]
  ELSE parseEntries(t, i + 4,
         Append(acc, TerminalEntry(t[i + 1].v[1], t[i + 2].v)))

RECURSIVE parseSessions(_, _, _)
parseSessions(t, i, acc) ==
  IF t[i].k = "]" THEN acc
  ELSE LET h == parseEntries(t, i + 4, <<>>)
       IN  parseSessions(t, h.next + 1,
             Append(acc, TerminalSession(t[i + 1].v, t[i + 2].v, h.val)))

JSONparse(t) == parseSessions(t, 2, <<>>)

\* Where the entry list that starts at token i ends, 0 if the text is not
\* the text of an entry list.
RECURSIVE scanEntries(_, _)
scanEntries(t, i) ==
  IF i > Len(t) THEN 0
  ELSE IF t[i].k = "]" THEN i + 1
  ELSE IF /\ i + 3 <= Len(t)
          /\ t[i].k = "{" /\ t[i + 1].k = "s" /\ t[i + 2].k = "s"
          /\ t[i + 3].k = "}"
       THEN scanEntries(t, i + 4)
       ELSE 0

RECURSIVE scanSessions(_, _)
scanSessions(t, i) ==
  IF i > Len(t) THEN 0
  ELSE IF t[i].k = "]" THEN i + 1
  ELSE IF /\ i + 3 <= Len(t)
          /\ t[i].k = "{" /\ t[i + 1].k = "s" /\ t[i + 2].k = "s"
          /\ t[i + 3].k = "["
       THEN LET j == scanEntries(t, i + 4)
            IN  IF j # 0 /\ j <= Len(t) /\ t[j].k = "}"
                THEN scanSessions(t, j + 1) ELSE 0
       ELSE 0

\* JSON.parse throws SyntaxError: the text is not one whole JSON value.
SyntaxError(t) ==
  \/ t = <<>>
  \/ t[1].k # "["
  \/ scanSessions(t, 2) # Len(t) + 1

STORAGE_KEY == "terminal-sessions"
ACTIVE_TAB_KEY == "active-terminal-tab"

setItem(ls, key, value) ==
  [k \in DOMAIN ls \cup {key} |-> IF k = key THEN value ELSE ls[k]]

(***************************************************************************)
(* The two save effects, run after every render that changed their         *)
(* dependency.                                                             *)
(***************************************************************************)
SaveSessions(ss, ls) ==
  IF Len(ss) > 0 THEN setItem(ls, STORAGE_KEY, JSONstringify(ss)) ELSE ls

SaveActiveTab(active, ls) ==
  IF active # EMPTY THEN setItem(ls, ACTIVE_TAB_KEY, active) ELSE ls

Effects ==
  localStorage' = SaveActiveTab(activeSessionId', SaveSessions(sessions', localStorage))

(***************************************************************************)
(* The load effect: the state after mount, from what storage holds.        *)
(***************************************************************************)
initialSession == TerminalSession(<<"1">>, <<"Terminal ">> \o <<"1">>, <<>>)

\* getItem gives null for a missing key; null and '' are both falsy.
getItem(ls, key) == IF key \in DOMAIN ls THEN ls[key] ELSE EMPTY

\* When JSON.parse throws, the effect is left before any state is set: the
\* component keeps its useState defaults, no session and no active id.
LoadSessions(ls) ==
  IF getItem(ls, STORAGE_KEY) # EMPTY
  THEN IF SyntaxError(ls[STORAGE_KEY]) THEN <<>> ELSE JSONparse(ls[STORAGE_KEY])
  ELSE <<initialSession>>

\* Mutant of LoadActiveTab: the stored tab id is taken without looking for
\* its session.
LoadActiveTab_KeepsStale(ls) ==
  IF getItem(ls, STORAGE_KEY) # EMPTY
  THEN IF SyntaxError(ls[STORAGE_KEY]) THEN EMPTY ELSE
       LET parsedSessions == JSONparse(ls[STORAGE_KEY])
       IN  IF ACTIVE_TAB_KEY \in DOMAIN ls /\ ls[ACTIVE_TAB_KEY] # EMPTY
           THEN ls[ACTIVE_TAB_KEY]
           ELSE IF Len(parsedSessions) > 0 THEN parsedSessions[1].id ELSE EMPTY
  ELSE <<"1">>

\* Mutant of LoadActiveTab: without stored sessions a stored tab id is still
\* restored.
LoadActiveTab_TabWithoutSessions(ls) ==
  IF getItem(ls, STORAGE_KEY) # EMPTY
  THEN IF SyntaxError(ls[STORAGE_KEY]) THEN EMPTY ELSE
       LET parsedSessions == JSONparse(ls[STORAGE_KEY])
       IN  IF /\ ACTIVE_TAB_KEY \in DOMAIN ls
              /\ ls[ACTIVE_TAB_KEY] # EMPTY
              /\ find(parsedSessions, ls[ACTIVE_TAB_KEY]) # {}
           THEN ls[ACTIVE_TAB_KEY]
           ELSE IF Len(parsedSessions) > 0 THEN parsedSessions[1].id ELSE EMPTY
  ELSE IF ACTIVE_TAB_KEY \in DOMAIN ls /\ ls[ACTIVE_TAB_KEY] # EMPTY
       THEN ls[ACTIVE_TAB_KEY] ELSE <<"1">>

LoadActiveTab(ls) ==
  IF getItem(ls, STORAGE_KEY) # EMPTY
  THEN IF SyntaxError(ls[STORAGE_KEY]) THEN EMPTY ELSE
       LET parsedSessions == JSONparse(ls[STORAGE_KEY])
       IN  IF /\ ACTIVE_TAB_KEY \in DOMAIN ls
              /\ ls[ACTIVE_TAB_KEY] # EMPTY
              /\ find(parsedSessions, ls[ACTIVE_TAB_KEY]) # {}
           THEN ls[ACTIVE_TAB_KEY]
           ELSE IF Len(parsedSessions) > 0 THEN parsedSessions[1].id ELSE EMPTY
  ELSE <<"1">>

EmptyStorage == [k \in {} |-> EMPTY]

Init ==
  /\ sessions = LoadSessions(EmptyStorage)
  /\ activeSessionId = LoadActiveTab(EmptyStorage)
  /\ currentCommand = EMPTY
  /\ isLoading = FALSE
  /\ commandHistory = <<>>
  /\ historyIndex = -1
  /\ abortControllerRef = null
  /\ calls = {}
  /\ localStorage = SaveActiveTab(activeSessionId, SaveSessions(sessions, EmptyStorage))

(***************************************************************************)
(* executeCommand, up to its await.                                        *)
(***************************************************************************)
\* Mutant of executeCommand: a command is run without an active session.
executeCommand_NoActiveCheck(command) ==
  IF Trim(command) = EMPTY
  THEN UNCHANGED <<sessions, currentCommand, isLoading, commandHistory,
                   historyIndex, abortControllerRef, calls>>
  ELSE IF Trim(command) = CLEAR
  THEN /\ sessions' = clearTerminal(sessions, activeSessionId)
       /\ currentCommand' = EMPTY
       /\ UNCHANGED <<isLoading, commandHistory, historyIndex,
                      abortControllerRef, calls>>
  ELSE /\ TotalEntries(sessions) + 3 <= MaxEntries
       /\ commandHistory' = pushCommandHistory(commandHistory, command)
       /\ historyIndex' = -1
       /\ sessions' = updateSessionHistory(sessions, activeSessionId,
                        TerminalEntry("command", PROMPT \o command))
       /\ currentCommand' = EMPTY
       /\ isLoading' = TRUE
       /\ abortControllerRef' = Controller(activeSessionId, command)
       /\ calls' = calls \cup {Call(activeSessionId, command, FALSE)}

\* Mutant of executeCommand: the text is compared with 'clear' untrimmed.
executeCommand_ClearUntrimmed(command) ==
  IF Trim(command) = EMPTY \/ activeSessionId = EMPTY
  THEN UNCHANGED <<sessions, currentCommand, isLoading, commandHistory,
                   historyIndex, abortControllerRef, calls>>
  ELSE IF command = CLEAR
  THEN /\ sessions' = clearTerminal(sessions, activeSessionId)
       /\ currentCommand' = EMPTY
       /\ UNCHANGED <<isLoading, commandHistory, historyIndex,
                      abortControllerRef, calls>>
  ELSE /\ TotalEntries(sessions) + 3 <= MaxEntries
       /\ commandHistory' = pushCommandHistory(commandHistory, command)
       /\ historyIndex' = -1
       /\ sessions' = updateSessionHistory(sessions, activeSessionId,
                        TerminalEntry("command", PROMPT \o command))
       /\ currentCommand' = EMPTY
       /\ isLoading' = TRUE
       /\ abortControllerRef' = Controller(activeSessionId, command)
       /\ calls' = calls \cup {Call(activeSessionId, command, FALSE)}

\* Mutant of executeCommand: the request is sent but the command entry is not
\* appended at submission.
executeCommand_NoCommandEntry(command) ==
  IF Trim(command) = EMPTY \/ activeSessionId = EMPTY
  THEN UNCHANGED <<sessions, currentCommand, isLoading, commandHistory,
                   historyIndex, abortControllerRef, calls>>
  ELSE IF Trim(command) = CLEAR
  THEN /\ sessions' = clearTerminal(sessions, activeSessionId)
       /\ currentCommand' = EMPTY
       /\ UNCHANGED <<isLoading, commandHistory, historyIndex,
                      abortControllerRef, calls>>
  ELSE /\ TotalEntries(sessions) + 3 <= MaxEntries
       /\ commandHistory' = pushCommandHistory(commandHistory, command)
       /\ historyIndex' = -1
       /\ sessions' = sessions
       /\ currentCommand' = EMPTY
       /\ isLoading' = TRUE
       /\ abortControllerRef' = Controller(activeSessionId, command)
       /\ calls' = calls \cup {Call(activeSessionId, command, FALSE)}

executeCommand(command) ==
  IF Trim(command) = EMPTY \/ activeSessionId = EMPTY
  THEN UNCHANGED <<sessions, currentCommand, isLoading, commandHistory,
                   historyIndex, abortControllerRef, calls>>
  ELSE IF Trim(command) = CLEAR
  THEN /\ sessions' = clearTerminal(sessions, activeSessionId)
       /\ currentCommand' = EMPTY
       /\ UNCHANGED <<isLoading, commandHistory, historyIndex,
                      abortControllerRef, calls>>
  ELSE /\ TotalEntries(sessions) + 3 <= MaxEntries
       /\ commandHistory' = pushCommandHistory(commandHistory, command)
       /\ historyIndex' = -1
       /\ sessions' = updateSessionHistory(sessions, activeSessionId,
                        TerminalEntry("command", PROMPT \o command))
       /\ currentCommand' = EMPTY
       /\ isLoading' = TRUE
       /\ abortControllerRef' = Controller(activeSessionId, command)
       /\ calls' = calls \cup {Call(activeSessionId, command, FALSE)}

\* Mutant of cancelCommand: the busy flag is left for the aborted call to clear.
cancelCommand_KeepsBusy ==
  /\ calls' = IF abortControllerRef # null
              THEN abort(calls, abortControllerRef) ELSE calls
  /\ sessions' = updateSessionHistory(sessions, activeSessionId,
                   TerminalEntry("error", CTRL_C))
  /\ currentCommand' = EMPTY
  /\ UNCHANGED <<isLoading, commandHistory, historyIndex, abortControllerRef>>

\* Mutant of cancelCommand: the controller is not aborted.
cancelCommand_NoAbort ==
  /\ calls' = calls
  /\ sessions' = updateSessionHistory(sessions, activeSessionId,
                   TerminalEntry("error", CTRL_C))
  /\ isLoading' = FALSE
  /\ currentCommand' = EMPTY
  /\ UNCHANGED <<commandHistory, historyIndex, abortControllerRef>>

cancelCommand ==
  /\ calls' = IF abortControllerRef # null
              THEN abort(calls, abortControllerRef) ELSE calls
  /\ sessions' = updateSessionHistory(sessions, activeSessionId,
                   TerminalEntry("error", CTRL_C))
  /\ isLoading' = FALSE
  /\ currentCommand' = EMPTY
  /\ UNCHANGED <<commandHistory, historyIndex, abortControllerRef>>

(***************************************************************************)
(* handleKeyDown, one action per key.                                      *)
(***************************************************************************)
\* Mutant of KeyEnter: Enter runs executeCommand without looking at isLoading.
KeyEnter_IgnoresBusy ==
  /\ executeCommand(currentCommand)
  /\ UNCHANGED activeSessionId
  /\ Effects

KeyEnter ==
  /\ IF ~isLoading
     THEN executeCommand(currentCommand)
     ELSE UNCHANGED <<sessions, currentCommand, isLoading, commandHistory,
                      historyIndex, abortControllerRef, calls>>
  /\ UNCHANGED activeSessionId
  /\ Effects

\* Mutant of KeyCtrlC: Ctrl+C cancels whether a command is running or not.
KeyCtrlC_AlwaysCancels ==
  /\ cancelCommand
  /\ UNCHANGED activeSessionId
  /\ Effects

KeyCtrlC ==
  /\ IF isLoading
     THEN cancelCommand
     ELSE /\ TotalEntries(sessions) + 3 <= MaxEntries
          /\ sessions' = updateSessionHistory(sessions, activeSessionId,
                           TerminalEntry("command", PROMPT \o currentCommand \o CTRL_C))
          /\ currentCommand' = EMPTY
          /\ UNCHANGED <<isLoading, commandHistory, historyIndex,
                         abortControllerRef, calls>>
  /\ UNCHANGED activeSessionId
  /\ Effects

KeyCtrlL ==
  /\ sessions' = clearTerminal(sessions, activeSessionId)
  /\ UNCHANGED <<activeSessionId, currentCommand, isLoading, commandHistory,
                 historyIndex, abortControllerRef, calls>>
  /\ Effects

\* Mutant of KeyArrowUp: the cursor is not clamped at the oldest entry.
KeyArrowUp_Unclamped ==
  /\ IF Len(commandHistory) > 0
     THEN LET newIndex == historyIndex + 1
          IN  /\ historyIndex' = newIndex
              /\ currentCommand' = IF newIndex + 1 <= Len(commandHistory)
                                   THEN commandHistory[newIndex + 1] ELSE EMPTY
     ELSE UNCHANGED <<historyIndex, currentCommand>>
  /\ UNCHANGED <<sessions, activeSessionId, isLoading, commandHistory,
                 abortControllerRef, calls>>
  /\ Effects

KeyArrowUp ==
  /\ IF Len(commandHistory) > 0
     THEN LET newIndex == Min(historyIndex + 1, Len(commandHistory) - 1)
          IN  /\ historyIndex' = newIndex
              /\ currentCommand' = commandHistory[newIndex + 1]
     ELSE UNCHANGED <<historyIndex, currentCommand>>
  /\ UNCHANGED <<sessions, activeSessionId, isLoading, commandHistory,
                 abortControllerRef, calls>>
  /\ Effects

KeyArrowDown ==
  /\ IF historyIndex > 0
     THEN /\ historyIndex' = historyIndex - 1
          /\ currentCommand' = commandHistory[historyIndex]
     ELSE IF historyIndex = 0
     THEN /\ historyIndex' = -1
          /\ currentCommand' = EMPTY
     ELSE UNCHANGED <<historyIndex, currentCommand>>
  /\ UNCHANGED <<sessions, activeSessionId, isLoading, commandHistory,
                 abortControllerRef, calls>>
  /\ Effects

\* Mutant of KeyChar: leaving the selection also empties the input line.
KeyChar_ClearsInput ==
  /\ historyIndex' = IF historyIndex # -1 THEN -1 ELSE historyIndex
  /\ currentCommand' = IF historyIndex # -1 THEN EMPTY ELSE currentCommand
  /\ UNCHANGED <<sessions, activeSessionId, isLoading,
                 commandHistory, abortControllerRef, calls>>
  /\ Effects

KeyChar ==
  /\ historyIndex' = IF historyIndex # -1 THEN -1 ELSE historyIndex
  /\ UNCHANGED <<sessions, activeSessionId, currentCommand, isLoading,
                 commandHistory, abortControllerRef, calls>>
  /\ Effects

onChange(value) ==
  /\ currentCommand' = value
  /\ UNCHANGED <<sessions, activeSessionId, isLoading, commandHistory,
                 historyIndex, abortControllerRef, calls>>
  /\ Effects

(***************************************************************************)
(* The tab bar.                                                            *)
(***************************************************************************)
\* Mutant of createNewTab: the new session is put in front of the others.
createNewTab_Prepends(t) ==
  /\ Len(sessions) < MaxSessions
  /\ LET newId == toString(t)
         newSession == TerminalSession(newId,
                         <<"Terminal ">> \o toString(Len(sessions) + 1), <<>>)
     IN  /\ sessions' = <<newSession>> \o sessions
         /\ activeSessionId' = newId
  /\ UNCHANGED <<currentCommand, isLoading, commandHistory, historyIndex,
                 abortControllerRef, calls>>
  /\ Effects

createNewTab(t) ==
  /\ Len(sessions) < MaxSessions
  /\ LET newId == toString(t)
         newSession == TerminalSession(newId,
                         <<"Terminal ">> \o toString(Len(sessions) + 1), <<>>)
     IN  /\ sessions' = Append(sessions, newSession)
         /\ activeSessionId' = newId
  /\ UNCHANGED <<currentCommand, isLoading, commandHistory, historyIndex,
                 abortControllerRef, calls>>
  /\ Effects

closeTab(sessionId) ==
  /\ IF Len(sessions) = 1
     THEN UNCHANGED <<sessions, activeSessionId>>
     ELSE LET remainingSessions == SelectSeq(sessions, LAMBDA s : s.id # sessionId)
          IN  /\ sessions' = remainingSessions
              /\ activeSessionId' =
                   IF sessionId = activeSessionId
                   THEN IF Len(remainingSessions) > 0
                        THEN remainingSessions[1].id ELSE EMPTY
                   ELSE activeSessionId
  /\ UNCHANGED <<currentCommand, isLoading, commandHistory, historyIndex,
                 abortControllerRef, calls>>
  /\ Effects

\* Mutant of tabClick: leaving a tab cancels the command that is running.
tabClick_CancelsCommand(sessionId) ==
  /\ activeSessionId' = sessionId
  /\ calls' = IF abortControllerRef # null
              THEN abort(calls, abortControllerRef) ELSE calls
  /\ isLoading' = FALSE
  /\ UNCHANGED <<sessions, currentCommand, commandHistory, historyIndex,
                 abortControllerRef>>
  /\ Effects

tabClick(sessionId) ==
  /\ activeSessionId' = sessionId
  /\ UNCHANGED <<sessions, currentCommand, isLoading, commandHistory,
                 historyIndex, abortControllerRef, calls>>
  /\ Effects

(***************************************************************************)
(* executeCommand, resumed when the request settles.                       *)
(***************************************************************************)
\* Mutant of ResultEntries: an error payload does not hide stdout and stderr.
ResultEntries_ErrorAndOutput(result) ==
  (IF result.error # EMPTY
   THEN <<TerminalEntry("error", result.error)>> ELSE <<>>)
  \o (IF result.stdout # EMPTY
      THEN <<TerminalEntry("output", result.stdout)>> ELSE <<>>)
  \o (IF result.stderr # EMPTY
      THEN <<TerminalEntry("error", result.stderr)>> ELSE <<>>)

\* Mutant of ResultEntries: the texts are trimmed before they are stored.
ResultEntries_Trimmed(result) ==
  IF result.error # EMPTY
  THEN <<TerminalEntry("error", result.error)>>
  ELSE (IF result.stdout # EMPTY
        THEN <<TerminalEntry("output", Trim(result.stdout))>> ELSE <<>>)
       \o (IF result.stderr # EMPTY
           THEN <<TerminalEntry("error", Trim(result.stderr))>> ELSE <<>>)

\* Mutant of ResultEntries: stdout is shown without looking whether it is
\* empty.
ResultEntries_EmptyOutput(result) ==
  IF result.error # EMPTY
  THEN <<TerminalEntry("error", result.error)>>
  ELSE <<TerminalEntry("output", result.stdout)>>
       \o (IF result.stderr # EMPTY
           THEN <<TerminalEntry("error", result.stderr)>> ELSE <<>>)

ResultEntries(result) ==
  IF result.error # EMPTY
  THEN <<TerminalEntry("error", result.error)>>
  ELSE (IF result.stdout # EMPTY
        THEN <<TerminalEntry("output", result.stdout)>> ELSE <<>>)
       \o (IF result.stderr # EMPTY
           THEN <<TerminalEntry("error", result.stderr)>> ELSE <<>>)

\* Mutant of FailureEntry: the message of the exception is shown as it is.
FailureEntry_Raw(message) == TerminalEntry("error", message)

FailureEntry(message) == TerminalEntry("error", FAILED_PREFIX \o message)

RECURSIVE appendAll(_, _, _)
appendAll(ss, sessionId, entries) ==
  IF entries = <<>> THEN ss
  ELSE appendAll(updateSessionHistory(ss, sessionId, Head(entries)),
                 sessionId, Tail(entries))

\* What the request can settle with when its signal is not aborted: fetch
\* rejects, the status is not 2xx, the body is no JSON, or a JSON result.
Outcomes ==
  [kind : {"network", "status", "syntax"},
   result : {[error |-> EMPTY, stdout |-> EMPTY, stderr |-> EMPTY]}]
  \cup [kind : {"json"}, result : Results]

OutcomeEntries(outcome) ==
  IF outcome.kind = "json" THEN ResultEntries(outcome.result)
  ELSE IF outcome.kind = "network" THEN <<FailureEntry(NET_MESSAGE)>>
  ELSE IF outcome.kind = "status" THEN <<FailureEntry(HTTP_MESSAGE)>>
  ELSE <<FailureEntry(SYNTAX_MESSAGE)>>

\* Mutant of Settles: after a transport failure the request is sent again.
Settles_RetriesOnFailure(c, outcome) ==
  /\ c \in calls
  /\ ~c.aborted
  /\ sessions' = appendAll(sessions, c.sid, OutcomeEntries(outcome))
  /\ IF outcome.kind = "network"
     THEN UNCHANGED <<calls, isLoading, abortControllerRef>>
     ELSE /\ calls' = calls \ {c}
          /\ isLoading' = FALSE
          /\ abortControllerRef' = null
  /\ UNCHANGED <<activeSessionId, currentCommand, commandHistory, historyIndex>>
  /\ Effects

\* Mutant of Settles: a command whose execution failed is taken out of the
\* command history list.
Settles_FailureForgetsCommand(c, outcome) ==
  /\ c \in calls
  /\ ~c.aborted
  /\ calls' = calls \ {c}
  /\ sessions' = appendAll(sessions, c.sid, OutcomeEntries(outcome))
  /\ isLoading' = FALSE
  /\ abortControllerRef' = null
  /\ commandHistory' = IF outcome.kind = "json" THEN commandHistory
                       ELSE SelectSeq(commandHistory, LAMBDA cmd : cmd # c.command)
  /\ UNCHANGED <<activeSessionId, currentCommand, historyIndex>>
  /\ Effects

\* Mutant of Settles: after a failure the catch block returns right after
\* reporting it, as it does for AbortError.
Settles_FailureKeepsBusy(c, outcome) ==
  /\ c \in calls
  /\ ~c.aborted
  /\ calls' = calls \ {c}
  /\ sessions' = appendAll(sessions, c.sid, OutcomeEntries(outcome))
  /\ IF outcome.kind = "json"
     THEN isLoading' = FALSE /\ abortControllerRef' = null
     ELSE UNCHANGED <<isLoading, abortControllerRef>>
  /\ UNCHANGED <<activeSessionId, currentCommand, commandHistory, historyIndex>>
  /\ Effects

\* Mutant of Settles: the entries go to whatever session is active when the
\* request settles.
Settles_RoutesToActive(c, outcome) ==
  /\ c \in calls
  /\ ~c.aborted
  /\ calls' = calls \ {c}
  /\ sessions' = appendAll(sessions, activeSessionId, OutcomeEntries(outcome))
  /\ isLoading' = FALSE
  /\ abortControllerRef' = null
  /\ UNCHANGED <<activeSessionId, currentCommand, commandHistory, historyIndex>>
  /\ Effects

\* The request of call c settles while its signal is not aborted: the
\* outcome's entries go to the session the call captured, and the busy flag
\* and the controller are cleared.
Settles(c, outcome) ==
  /\ c \in calls
  /\ ~c.aborted
  /\ calls' = calls \ {c}
  /\ sessions' = appendAll(sessions, c.sid, OutcomeEntries(outcome))
  /\ isLoading' = FALSE
  /\ abortControllerRef' = null
  /\ UNCHANGED <<activeSessionId, currentCommand, commandHistory, historyIndex>>
  /\ Effects

\* Mutant of Aborts: the catch block does not tell AbortError from other
\* errors and reports the rejection like any failure.
Aborts_ReportsFailure(c) ==
  /\ c \in calls
  /\ c.aborted
  /\ calls' = calls \ {c}
  /\ sessions' = updateSessionHistory(sessions, c.sid, FailureEntry(NET_MESSAGE))
  /\ isLoading' = FALSE
  /\ abortControllerRef' = null
  /\ UNCHANGED <<activeSessionId, currentCommand, commandHistory, historyIndex>>
  /\ Effects

\* Mutant of Aborts: the cleanup after the try statement is also run when
\* the call was cancelled.
Aborts_ClearsBusy(c) ==
  /\ c \in calls
  /\ c.aborted
  /\ calls' = calls \ {c}
  /\ isLoading' = FALSE
  /\ abortControllerRef' = null
  /\ UNCHANGED <<sessions, activeSessionId, currentCommand, commandHistory,
                 historyIndex>>
  /\ Effects

\* The request of call c rejects with AbortError because its signal is
\* aborted: the call returns from its catch block.
Aborts(c) ==
  /\ c \in calls
  /\ c.aborted
  /\ calls' = calls \ {c}
  /\ UNCHANGED <<sessions, activeSessionId, currentCommand, isLoading,
                 commandHistory, historyIndex, abortControllerRef>>
  /\ Effects

(***************************************************************************)
(* Reloading the page: every piece of component state is rebuilt by the    *)
(* load effect from what storage holds; suspended calls die with the page. *)
(***************************************************************************)
\* Mutant of Reload: the command history list and its cursor survive the
\* reload, as if they were persisted with the sessions.
Reload_KeepsCommandHistory ==
  /\ sessions' = LoadSessions(localStorage)
  /\ activeSessionId' = LoadActiveTab(localStorage)
  /\ currentCommand' = EMPTY
  /\ isLoading' = FALSE
  /\ UNCHANGED <<commandHistory, historyIndex>>
  /\ abortControllerRef' = null
  /\ calls' = {}
  /\ Effects

Reload ==
  /\ sessions' = LoadSessions(localStorage)
  /\ activeSessionId' = LoadActiveTab(localStorage)
  /\ currentCommand' = EMPTY
  /\ isLoading' = FALSE
  /\ commandHistory' = <<>>
  /\ historyIndex' = -1
  /\ abortControllerRef' = null
  /\ calls' = {}
  /\ Effects

SessionIds == {sessions[i].id : i \in 1..Len(sessions)}

Next ==
  \/ KeyEnter
  \/ KeyCtrlC
  \/ KeyCtrlL
  \/ KeyArrowUp
  \/ KeyArrowDown
  \/ KeyChar
  \/ \E value \in Inputs : onChange(value)
  \/ \E t \in ClockReadings : createNewTab(t)
  \/ \E id \in SessionIds : closeTab(id)
  \/ \E id \in SessionIds : tabClick(id)
  \/ \E c \in calls, outcome \in Outcomes : Settles(c, outcome)
  \/ \E c \in calls : Aborts(c)
  \/ Reload

Spec == Init /\ [][Next]_vars

(***************************************************************************)
(* The request of every suspended call settles sooner or later (the        *)
(* service answers or the transport fails), which is all the scheduling    *)
(* the liveness claims rest on.                                            *)
(***************************************************************************)
AllIds == {<<"1">>} \cup {toString(t) : t \in ClockReadings}

AllCalls == {Call(sid, command, aborted) :
               sid \in AllIds, command \in Inputs, aborted \in BOOLEAN}

FairSpec ==
  /\ Spec
  /\ \A c \in AllCalls : WF_vars(\E outcome \in Outcomes : Settles(c, outcome))
  /\ \A c \in AllCalls : WF_vars(Aborts(c))

(***************************************************************************)
(* The history navigator on long lists.  The session starts with a command *)
(* history list that earlier submissions have left: Run(n) is the list     *)
(* after the commands "1", "2", ..., n were submitted in that order (each  *)
(* followed by Ctrl+L, so the scrollback is empty again).  The user types  *)
(* or recalls a command and submits it, and moves the cursor.              *)
(***************************************************************************)
Run(n) == [i \in 1..n |-> toString(n + 1 - i)]

HistoryLengths == {0, 1, 2, HISTORY_CAP - 1, HISTORY_CAP}

HistoryLists == {Run(n) : n \in HistoryLengths}

\* The oldest command of every list, one of the middle, one that is in
\* none of the lists, and a blank.
HistoryInputs == {toString(1), toString(25), toString(HISTORY_CAP + 1), <<" ">>}

HistoryOutcome ==
  [kind |-> "json", result |-> [error |-> EMPTY, stdout |-> <<"o">>, stderr |-> EMPTY]]

HistoryInit ==
  /\ sessions = LoadSessions(EmptyStorage)
  /\ activeSessionId = LoadActiveTab(EmptyStorage)
  /\ currentCommand = EMPTY
  /\ isLoading = FALSE
  /\ commandHistory \in HistoryLists
  /\ historyIndex = -1
  /\ abortControllerRef = null
  /\ calls = {}
  /\ localStorage = SaveActiveTab(activeSessionId, SaveSessions(sessions, EmptyStorage))

HistoryNext ==
  \/ KeyEnter
  \/ KeyArrowUp
  \/ KeyArrowDown
  \/ KeyChar
  \/ \E value \in HistoryInputs : onChange(value)
  \/ \E c \in calls : Settles(c, HistoryOutcome)

HistorySpec == HistoryInit /\ [][HistoryNext]_vars

(***************************************************************************)
(* Startup from what an earlier run of the page left in storage.  Before   *)
(* the load effect runs the component holds its useState defaults; what    *)
(* storage holds is drawn from the collections of one or two sessions with *)
(* ids 1 and 2, each with an empty or a two-entry scrollback, and from the *)
(* tab ids 1, 2, 3 (a session deleted since), the empty string, or no tab  *)
(* id at all; storage without a session collection is drawn too, and so    *)
(* is storage whose session text is empty or breaks off in the middle.     *)
(***************************************************************************)
StoredHistories ==
  {<<>>,
   <<TerminalEntry("command", PROMPT \o <<"a">>),
     TerminalEntry("output", <<" ", "o">>)>>,
   <<TerminalEntry("command", PROMPT \o <<"a">>),
     TerminalEntry("error", CTRL_C)>>}

StoredSessions ==
  {TerminalSession(toString(k), <<"Terminal ">> \o toString(k), h) :
     k \in {1, 2}, h \in StoredHistories}

StoredCollections ==
  {<<s>> : s \in StoredSessions}
  \cup {<<p[1], p[2]>> :
          p \in {q \in StoredSessions \X StoredSessions : q[1].id # q[2].id}}

StoredActiveTabs == {toString(1), toString(2), toString(3), EMPTY}

\* The empty text, a text that breaks off inside the first session, and the
\* text of the default collection without its closing bracket.
MalformedTexts ==
  {EMPTY,
   <<Tok("[", EMPTY), Tok("{", EMPTY), Tok("s", <<"1">>)>>,
   SubSeq(JSONstringify(<<initialSession>>), 1,
          Len(JSONstringify(<<initialSession>>)) - 1)}

StoredStates ==
  LET withSessions == {setItem(EmptyStorage, STORAGE_KEY, JSONstringify(ss)) :
                         ss \in StoredCollections}
      malformed == {setItem(EmptyStorage, STORAGE_KEY, t) : t \in MalformedTexts}
      bases == withSessions \cup malformed \cup {EmptyStorage}
  IN  bases \cup {setItem(ls, ACTIVE_TAB_KEY, tab) :
                    ls \in bases, tab \in StoredActiveTabs}

RestoreInit ==
  /\ sessions = <<>>
  /\ activeSessionId = EMPTY
  /\ currentCommand = EMPTY
  /\ isLoading = FALSE
  /\ commandHistory = <<>>
  /\ historyIndex = -1
  /\ abortControllerRef = null
  /\ calls = {}
  /\ localStorage \in StoredStates

RestoreNext ==
  \/ Reload
  \/ KeyCtrlL
  \/ \E id \in SessionIds : tabClick(id)
  \/ \E id \in SessionIds : closeTab(id)

RestoreSpec == RestoreInit /\ [][RestoreNext]_vars

\* The load effect runs once the component is mounted.
RestoreFairSpec == RestoreSpec /\ WF_vars(Reload)

(***************************************************************************)
(* Runs in which no scrollback is cleared and the page is not reloaded:    *)
(* the user types the command a, submits, opens, closes and switches tabs, *)
(* and requests settle.  Every behaviour of CloseSpec is one of Spec.  In  *)
(* these runs a session holds the command entry of the call it issued for  *)
(* as long as it is in the collection.                                     *)
(***************************************************************************)
CloseNext ==
  \/ onChange(<<"a">>)
  \/ KeyEnter
  \/ \E t \in ClockReadings : createNewTab(t)
  \/ \E id \in SessionIds : closeTab(id)
  \/ \E id \in SessionIds : tabClick(id)
  \/ \E c \in calls, outcome \in Outcomes : Settles(c, outcome)

CloseSpec == Init /\ [][CloseNext]_vars

(***************************************************************************)
(* Vocabulary of the properties.                                           *)
(***************************************************************************)
LiveCalls == {c \in calls : ~c.aborted}

CommandEntry(command) == TerminalEntry("command", PROMPT \o command)

CancelEntry == TerminalEntry("error", CTRL_C)

RECURSIVE CountCommandEntries(_)
CountCommandEntries(h) ==
  IF h = <<>> THEN 0
  ELSE (IF Head(h).type = "command" THEN 1 ELSE 0) + CountCommandEntries(Tail(h))

RECURSIVE TotalCommandEntries(_)
TotalCommandEntries(ss) ==
  IF ss = <<>> THEN 0
  ELSE CountCommandEntries(Head(ss).history) + TotalCommandEntries(Tail(ss))

Requests(cs) == {<<c.sid, c.command>> : c \in cs}

\* The histories of ss are those of tt, with `entries` appended to every
\* session whose id is sessionId and nothing else changed.
AppendedOnlyTo(tt, ss, sessionId, entries) ==
  /\ Len(ss) = Len(tt)
  /\ \A i \in 1..Len(tt) :
       IF tt[i].id = sessionId
       THEN ss[i] = [tt[i] EXCEPT !.history = tt[i].history \o entries]
       ELSE ss[i] = tt[i]

(***************************************************************************)
(* C1.  At most one command is in flight, and nothing is submitted while   *)
(* the busy flag is set: no step leaves more than one call whose signal is *)
(* not aborted, and a step taken from a busy state (other than a reload of *)
(* the page, which empties everything) sends no request that was not       *)
(* already pending, adds no command entry to any scrollback, and leaves    *)
(* the command history list as it was.  There is no state in which a       *)
(* rejected submit could wait: calls only ever holds requests already      *)
(* sent.                                                                   *)
(***************************************************************************)
C1_BusyRejectsSubmit ==
  [][/\ Cardinality(LiveCalls') <= 1
     /\ (isLoading /\ ~Reload) =>
          /\ Requests(calls') \subseteq Requests(calls)
          /\ TotalCommandEntries(sessions') <= TotalCommandEntries(sessions)
          /\ commandHistory' = commandHistory]_vars

\* A command of session A is running, the user has moved to session B and
\* has a command typed there: Enter is pressed against the busy flag.
C1_Witness ==
  /\ isLoading
  /\ currentCommand = <<"a">>
  /\ \E c \in LiveCalls : c.sid # activeSessionId /\ find(sessions, c.sid) # {}
  /\ activeSession # {}

(***************************************************************************)
(* C2.  Session-switch race: a result is routed by the session id captured *)
(* at submission.  A step that starts a call captures the id that is       *)
(* active in that step, and when the request of a call settles, its result *)
(* entries (output, error or failure description) are appended to the      *)
(* sessions with the captured id and every other session, the active one   *)
(* included, is left as it was.                                            *)
(***************************************************************************)
C2_ResultRoutedToIssuer ==
  [][/\ \A c \in LiveCalls' \ LiveCalls : c.sid = activeSessionId
     /\ \A c \in calls, outcome \in Outcomes :
          Settles(c, outcome) =>
            AppendedOnlyTo(sessions, sessions', c.sid, OutcomeEntries(outcome))]_vars

\* The race is on: the command of session A is still in flight and another
\* session, B, is the active one.
C2_Witness ==
  \E c \in LiveCalls :
    /\ c.sid # activeSessionId
    /\ \E i \in find(sessions, c.sid) : sessions[i].history = <<CommandEntry(c.command)>>
    /\ \E i \in activeSession : sessions[i].history = <<>>

(***************************************************************************)
(* C3.  Cancellation race: when cancel runs before the service responds,   *)
(* it appends one error entry ^C to the active session and nothing else to *)
(* any scrollback, and leaves no call whose signal is not aborted; so when *)
(* the command was issued in the session that is still active, that        *)
(* history ends with the command entry followed by ^C.  When the aborted   *)
(* call later resolves, no scrollback changes: no late success, error or   *)
(* failure entry is appended.                                              *)
(***************************************************************************)
C3_CancelThenNoLateEntry ==
  [][/\ (KeyCtrlC /\ isLoading) =>
          /\ AppendedOnlyTo(sessions, sessions', activeSessionId, <<CancelEntry>>)
          /\ LiveCalls' = {}
          /\ \A c \in LiveCalls : \A i \in find(sessions, c.sid) :
               (c.sid = activeSessionId
                  /\ sessions[i].history = <<CommandEntry(c.command)>>)
               => sessions'[i].history = <<CommandEntry(c.command), CancelEntry>>
     /\ \A c \in calls :
          (c.aborted /\ c \notin calls' /\ ~Reload) => sessions' = sessions]_vars

\* The cancelled call has resolved (nothing is pending, the controller it
\* left behind is still in the ref) and the session holds the command entry
\* and ^C, nothing more.
C3_Witness ==
  /\ calls = {}
  /\ ~isLoading
  /\ abortControllerRef # null
  /\ \E i \in activeSession :
       /\ sessions[i].id = abortControllerRef.sid
       /\ sessions[i].history = <<CommandEntry(abortControllerRef.command), CancelEntry>>

(***************************************************************************)
(* C4.  Ordering.  The claim as made, for the entries a response appends:  *)
(* in every reachable state each output or error entry of a scrollback     *)
(* (other than the ^C of a cancel) is preceded, in that scrollback, by the *)
(* command entry of a submission.                                          *)
(***************************************************************************)
C4_OutcomePrecededByCommand ==
  \A i \in 1..Len(sessions) : \A j \in 1..Len(sessions[i].history) :
    (/\ sessions[i].history[j].type \in {"output", "error"}
     /\ sessions[i].history[j] # CancelEntry) =>
      \E k \in 1..(j - 1), command \in Inputs :
        sessions[i].history[k] = CommandEntry(command)

(***************************************************************************)
(* C4, amended.  A step that submits a command appends exactly one command *)
(* entry, "$ " + text, to the active session in that same step.  While the *)
(* call is in flight the history of the issuing session either ends with   *)
(* that command entry or is empty (cleared, or the session was recreated), *)
(* so the entries of the response are appended right after the command     *)
(* entry, or at the start of an emptied history.                           *)
(***************************************************************************)
C4_CommandEntryFirst ==
  [][/\ \A c \in LiveCalls' \ LiveCalls :
          AppendedOnlyTo(sessions, sessions', activeSessionId,
                         <<CommandEntry(c.command)>>)
     /\ \A c \in LiveCalls' : \A i \in find(sessions', c.sid) :
          \/ sessions'[i].history = <<>>
          \/ sessions'[i].history[Len(sessions'[i].history)] = CommandEntry(c.command)
     /\ \A c \in calls, outcome \in Outcomes :
          Settles(c, outcome) =>
            \A i \in find(sessions, c.sid) :
              /\ sessions'[i].history = sessions[i].history \o OutcomeEntries(outcome)
              /\ \/ sessions[i].history = <<>>
                 \/ sessions[i].history[Len(sessions[i].history)]
                      = CommandEntry(c.command)]_vars

\* The response has arrived in a session that was cleared while its command
\* was in flight: the scrollback starts with an output entry.
C4_Witness ==
  /\ ~isLoading
  /\ calls = {}
  /\ \E i \in 1..Len(sessions) :
       /\ sessions[i].history # <<>>
       /\ sessions[i].history[1].type = "output"

(***************************************************************************)
(* C5.  The claim as made, in the part a finite run refutes: a submission  *)
(* never ends with zero outcomes, that is, when the request of a call      *)
(* settles and the issuing session still exists, some scrollback changes.  *)
(***************************************************************************)
C5_NeverZeroOutcomes ==
  [][\A c \in calls, outcome \in Outcomes :
       (Settles(c, outcome) /\ find(sessions, c.sid) # {}) => sessions' # sessions]_vars

\* The entries of one kind of outcome: the streams of a success (none, one
\* or both, output first), one service error, one failure description.
OneKind(entries) ==
  \/ entries = <<>>
  \/ Len(entries) = 1 /\ entries[1].type \in {"output", "error"}
  \/ /\ Len(entries) = 2
     /\ entries[1].type = "output"
     /\ entries[2].type = "error"
     /\ entries[2].content # FAILED_PREFIX \o NET_MESSAGE
     /\ entries[2].content # FAILED_PREFIX \o HTTP_MESSAGE
     /\ entries[2].content # FAILED_PREFIX \o SYNTAX_MESSAGE

(***************************************************************************)
(* C5, amended.  Every accepted submission has exactly one terminal event, *)
(* and it comes: a call whose signal is not aborted is the one the busy    *)
(* flag stands for; it ends either by its request settling, which appends  *)
(* the entries of one kind of outcome to the issuing session (no entry at  *)
(* all for a success with empty stdout and stderr, or when the issuing     *)
(* session has been closed), or by cancel, which appends one ^C to the     *)
(* active session and aborts it; an aborted call appends nothing when it   *)
(* resolves; and every pending call eventually resolves.                   *)
(***************************************************************************)
C5_OneTerminalOutcome ==
  /\ [][/\ (LiveCalls' # {}) => isLoading'
        /\ \A c \in LiveCalls :
             (c \notin LiveCalls' /\ ~Reload) =>
               \/ \E outcome \in Outcomes :
                    /\ OneKind(OutcomeEntries(outcome))
                    /\ AppendedOnlyTo(sessions, sessions', c.sid,
                                      OutcomeEntries(outcome))
                    /\ calls' = calls \ {c}
               \/ /\ Call(c.sid, c.command, TRUE) \in calls'
                  /\ AppendedOnlyTo(sessions, sessions', activeSessionId,
                                    <<CancelEntry>>)
        /\ \A c \in calls :
             (c.aborted /\ c \notin calls' /\ ~Reload) => sessions' = sessions]_vars
  /\ \A c \in AllCalls : (c \in calls) ~> (c \notin calls)

\* A success with empty stdout and stderr has settled: the command entry is
\* the last entry of the scrollback, nothing is pending, and the controller
\* has been cleared by the normal completion.
C5_Witness ==
  /\ ~isLoading
  /\ calls = {}
  /\ abortControllerRef = null
  /\ commandHistory # <<>>
  /\ \E i \in activeSession :
       /\ sessions[i].history # <<>>
       /\ sessions[i].history[Len(sessions[i].history)]
            = CommandEntry(commandHistory[1])

(***************************************************************************)
(* C6.  The busy flag is cleared in every terminal case: the step in which *)
(* a request settles (success, service error, transport or status failure, *)
(* malformed body) and the step in which cancel runs both end with the     *)
(* flag false; the flag is never set without a call that stands for it;    *)
(* and a busy manager always becomes idle again.                           *)
(***************************************************************************)
C6_BusyAlwaysCleared ==
  /\ [][/\ \A c \in calls, outcome \in Outcomes :
             Settles(c, outcome) => ~isLoading'
        /\ (KeyCtrlC /\ isLoading) => ~isLoading'
        /\ isLoading' => LiveCalls' # {}]_vars
  /\ isLoading ~> ~isLoading

\* A failure has been reported and the manager is idle again.
C6_Witness ==
  /\ ~isLoading
  /\ calls = {}
  /\ abortControllerRef = null
  /\ \E i \in 1..Len(sessions) :
       /\ sessions[i].history # <<>>
       /\ sessions[i].history[Len(sessions[i].history)] = FailureEntry(HTTP_MESSAGE)

(***************************************************************************)
(* C7.  The in-flight token is never left dangling: in every reachable     *)
(* state a token in abortControllerRef implies that the busy flag is set.  *)
(***************************************************************************)
C7_TokenImpliesBusy == (abortControllerRef # null) => isLoading

(***************************************************************************)
(* C8.  cancel(): with a command in flight, Ctrl+C aborts the signal of    *)
(* the call in flight, appends one error entry ^C to the active session    *)
(* and changes no other scrollback, and clears the busy flag and the input *)
(* buffer, all in the one step; the aborted request is still pending when  *)
(* the step ends.                                                          *)
(***************************************************************************)
C8_CancelIsImmediate ==
  [][(KeyCtrlC /\ isLoading) =>
       /\ LiveCalls' = {}
       /\ \A c \in LiveCalls : Call(c.sid, c.command, TRUE) \in calls'
       /\ Requests(calls') = Requests(calls)
       /\ AppendedOnlyTo(sessions, sessions', activeSessionId, <<CancelEntry>>)
       /\ ~isLoading'
       /\ currentCommand' = EMPTY]_vars

\* Cancel has just run: the aborted call has not resolved yet, the manager
\* is idle with an empty input line and ^C is the last entry on screen.
C8_Witness ==
  /\ ~isLoading
  /\ currentCommand = EMPTY
  /\ \E c \in calls : c.aborted
  /\ LiveCalls = {}
  /\ \E i \in activeSession :
       /\ sessions[i].history # <<>>
       /\ sessions[i].history[Len(sessions[i].history)] = CancelEntry

(***************************************************************************)
(* C9.  Switching the active session while a command is in flight changes  *)
(* the active-session pointer and nothing else: every scrollback, the busy *)
(* flag, the in-flight token, the pending calls, the command history list, *)
(* its cursor and the input buffer are as they were.                       *)
(***************************************************************************)
C9_SwitchOnlyMovesPointer ==
  [][\A id \in SessionIds :
       (tabClick(id) /\ isLoading) =>
         /\ activeSessionId' = id
         /\ UNCHANGED <<sessions, isLoading, abortControllerRef, calls,
                        commandHistory, historyIndex, currentCommand>>]_vars

\* The command was issued in the second tab and the first tab has been
\* clicked since: the command is still in flight.
C9_Witness ==
  /\ isLoading
  /\ Len(sessions) = 2
  /\ sessions[1].id # sessions[2].id
  /\ activeSessionId = sessions[1].id
  /\ LiveCalls = {Call(sessions[2].id, <<"a">>, FALSE)}
  /\ abortControllerRef = Controller(sessions[2].id, <<"a">>)
  /\ localStorage[ACTIVE_TAB_KEY] = sessions[1].id

(***************************************************************************)
(* C10.  Submitting text that trims to clear empties the history of the    *)
(* active session, appends no command entry anywhere, leaves the other     *)
(* sessions alone, sends nothing to the execution service (busy flag,      *)
(* token and pending calls unchanged) and does not touch the command       *)
(* history list.                                                           *)
(***************************************************************************)
C10_ClearIsLocal ==
  [][(KeyEnter /\ ~isLoading /\ Trim(currentCommand) = CLEAR
        /\ activeSessionId # EMPTY) =>
       /\ Len(sessions') = Len(sessions)
       /\ \A i \in 1..Len(sessions) :
            IF sessions[i].id = activeSessionId
            THEN sessions'[i] = [sessions[i] EXCEPT !.history = <<>>]
            ELSE sessions'[i] = sessions[i]
       /\ TotalCommandEntries(sessions') <= TotalCommandEntries(sessions)
       /\ UNCHANGED <<isLoading, abortControllerRef, calls, commandHistory>>]_vars

\* The input line holds " clear" over a scrollback that is not empty, with
\* the manager idle: Enter submits it.
C10_Witness ==
  /\ ~isLoading
  /\ Trim(currentCommand) = CLEAR
  /\ currentCommand # CLEAR
  /\ commandHistory # <<>>
  /\ \E i \in activeSession : Len(sessions[i].history) >= 2

(***************************************************************************)
(* C11.  clearActive (Ctrl+L) replaces the history of the active session   *)
(* with the empty sequence and leaves everything else of the collection    *)
(* as it was: the number and order of the sessions, the id and name of     *)
(* every session, the history of every session with another id, and the    *)
(* active-session pointer.                                                 *)
(***************************************************************************)
C11_ClearActiveFrame ==
  [][KeyCtrlL =>
       /\ Len(sessions') = Len(sessions)
       /\ \A i \in 1..Len(sessions) :
            sessions'[i] = IF sessions[i].id = activeSessionId
                           THEN [sessions[i] EXCEPT !.history = <<>>]
                           ELSE sessions[i]
       /\ activeSessionId' = activeSessionId]_vars

\* The command in flight was issued in the active session, the second of
\* two, and its command entry is gone from the screen: Ctrl+L has run.
C11_Witness ==
  /\ Len(sessions) = 2
  /\ sessions[1].id # sessions[2].id
  /\ activeSessionId = sessions[2].id
  /\ sessions[2].history = <<>>
  /\ \E c \in LiveCalls : c.sid = activeSessionId

(***************************************************************************)
(* C12.  After initialization the session collection is never empty: no    *)
(* step leaves zero sessions, and closing the only session changes neither *)
(* the collection nor the active-session pointer.                          *)
(***************************************************************************)
C12_NeverEmpty ==
  [][/\ Len(sessions') >= 1
     /\ \A id \in SessionIds :
          (closeTab(id) /\ Len(sessions) = 1) =>
            UNCHANGED <<sessions, activeSessionId>>]_vars

(***************************************************************************)
(* C13.  Closing a session of a collection of more than one removes        *)
(* exactly one session, one whose id is the id given: the collection is    *)
(* one shorter, and the other sessions keep their id, name, history and    *)
(* relative order.                                                         *)
(***************************************************************************)
C13_CloseRemovesOne ==
  [][\A id \in SessionIds :
       (closeTab(id) /\ Len(sessions) > 1) =>
         \E k \in 1..Len(sessions) :
           /\ sessions[k].id = id
           /\ sessions' = [i \in 1..(Len(sessions) - 1) |->
                             IF i < k THEN sessions[i] ELSE sessions[i + 1]]]_vars

(***************************************************************************)
(* C14.  Closing the active session of a collection of more than one makes *)
(* the first session of what remains the active one; closing another       *)
(* session leaves the active-session pointer as it was.                    *)
(***************************************************************************)
C14_CloseMovesPointer ==
  [][\A id \in SessionIds :
       (closeTab(id) /\ Len(sessions) > 1) =>
         IF id = activeSessionId
         THEN sessions' # <<>> /\ activeSessionId' = sessions'[1].id
         ELSE activeSessionId' = activeSessionId]_vars

(***************************************************************************)
(* C15.  In every reachable state the active-session pointer is not empty  *)
(* and is the id of a session of the collection.                           *)
(***************************************************************************)
C15_ActiveIsPresent == activeSessionId # EMPTY /\ activeSession # {}

(***************************************************************************)
(* C16.  In every reachable state no two sessions of the collection have   *)
(* the same id.                                                            *)
(***************************************************************************)
C16_UniqueIds ==
  \A i, j \in 1..Len(sessions) : i # j => sessions[i].id # sessions[j].id

(***************************************************************************)
(* C17.  createSession appends exactly one session at the end of the       *)
(* collection, with empty history and the name "Terminal " followed by the *)
(* number of sessions before the call plus one, makes its id the active    *)
(* one, leaves the sessions that were there and their order unchanged, and *)
(* touches neither the busy flag nor the in-flight token nor the pending   *)
(* calls.                                                                  *)
(***************************************************************************)
C17_CreateAppendsOne ==
  [][\A t \in ClockReadings :
       createNewTab(t) =>
         LET n == Len(sessions) IN
         /\ Len(sessions') = n + 1
         /\ SubSeq(sessions', 1, n) = sessions
         /\ sessions'[n + 1].history = <<>>
         /\ sessions'[n + 1].name = <<"Terminal ">> \o toString(n + 1)
         /\ activeSessionId' = sessions'[n + 1].id
         /\ UNCHANGED <<isLoading, abortControllerRef, calls>>]_vars

\* A tab was opened while a command of the first tab was in flight: the new
\* tab is last, empty, named Terminal 2 and active, and the command of the
\* first tab is still running.
C17_Witness ==
  /\ Len(sessions) = 2
  /\ sessions[1].id = <<"1">>
  /\ sessions[1].history = <<CommandEntry(<<"a">>)>>
  /\ sessions[2] = TerminalSession(activeSessionId, <<"Terminal ", "2">>, <<>>)
  /\ activeSessionId # <<"1">>
  /\ currentCommand = EMPTY
  /\ isLoading
  /\ LiveCalls = {Call(<<"1">>, <<"a">>, FALSE)}
  /\ abortControllerRef = Controller(<<"1">>, <<"a">>)

(***************************************************************************)
(* C18.  History push equals the reference operator: an accepted           *)
(* submission of c on the list L leaves the first 50 elements of c         *)
(* followed by L with every occurrence of c removed.  Pushing a command    *)
(* already in the list leaves the length unchanged and puts it in front;   *)
(* pushing a new command on a list of 50 drops the oldest and keeps the    *)
(* other 49, in order, behind the new one.                                 *)
(***************************************************************************)
RECURSIVE Without(_, _)
Without(L, c) ==
  IF L = <<>> THEN <<>>
  ELSE IF Head(L) = c THEN Without(Tail(L), c)
  ELSE <<Head(L)>> \o Without(Tail(L), c)

RECURSIVE FirstN(_, _)
FirstN(L, n) ==
  IF n = 0 \/ L = <<>> THEN <<>> ELSE <<Head(L)>> \o FirstN(Tail(L), n - 1)

ReferencePush(L, c) == FirstN(<<c>> \o Without(L, c), 50)

Elements(L) == {L[i] : i \in 1..Len(L)}

Accepted ==
  /\ KeyEnter
  /\ ~isLoading
  /\ activeSessionId # EMPTY
  /\ Trim(currentCommand) \notin {EMPTY, CLEAR}

C18_PushIsReference ==
  [][Accepted =>
       /\ commandHistory' = ReferencePush(commandHistory, currentCommand)
       /\ currentCommand \in Elements(commandHistory) =>
            /\ Len(commandHistory') = Len(commandHistory)
            /\ Head(commandHistory') = currentCommand
       /\ (currentCommand \notin Elements(commandHistory)
             /\ Len(commandHistory) = 50) =>
            /\ Len(commandHistory') = 50
            /\ Head(commandHistory') = currentCommand
            /\ Tail(commandHistory') = SubSeq(commandHistory, 1, 49)]_vars

\* The 51st distinct command has been submitted: the list holds the 50 most
\* recent, most recent first, and the first command is gone.
C18_Witness ==
  /\ Len(commandHistory) = 50
  /\ \A i \in 1..50 : commandHistory[i] = toString(52 - i)

(***************************************************************************)
(* C19.  In every reachable state the command history list holds no value  *)
(* twice and is at most 50 long.                                           *)
(***************************************************************************)
C19_HistoryUniqueAndCapped ==
  /\ Len(commandHistory) <= 50
  /\ \A i, j \in 1..Len(commandHistory) :
       i # j => commandHistory[i] # commandHistory[j]

\* The oldest command of a full list has been submitted again: it is in
\* front, once, and the list is still 50 long.
C19_Witness ==
  /\ Len(commandHistory) = 50
  /\ commandHistory[1] = toString(1)
  /\ commandHistory[2] = toString(50)
  /\ commandHistory[50] = toString(2)

(***************************************************************************)
(* C20.  History cursor bounds: in every reachable state the cursor is at  *)
(* least -1 and at most the list length minus one.  ArrowUp (previous)     *)
(* adds one to it but stops at the list length minus one; ArrowDown (next) *)
(* takes one from it but stops at -1; on an empty list both leave the      *)
(* cursor and the input buffer as they were.                               *)
(***************************************************************************)
C20_CursorBounds ==
  /\ [](-1 <= historyIndex /\ historyIndex <= Len(commandHistory) - 1)
  /\ [][/\ (KeyArrowUp /\ commandHistory # <<>>) =>
             historyIndex' = Min(historyIndex + 1, Len(commandHistory) - 1)
        /\ KeyArrowDown =>
             historyIndex' = IF historyIndex - 1 < -1 THEN -1 ELSE historyIndex - 1
        /\ ((KeyArrowUp \/ KeyArrowDown) /\ commandHistory = <<>>) =>
             UNCHANGED <<historyIndex, currentCommand>>]_vars

\* ArrowUp has been pressed on the oldest entry of a full list: the cursor
\* is still on it.
C20_Witness ==
  /\ Len(commandHistory) = 50
  /\ historyIndex = 49
  /\ currentCommand = commandHistory[50]
  /\ ~isLoading
  /\ \E i \in 1..Len(sessions) : sessions[i].history # <<>>

(***************************************************************************)
(* C21.  Typing a character while a history entry is selected (cursor not  *)
(* -1) sets the cursor to -1 and changes nothing else: the command history *)
(* list is as it was and the key handler leaves the text of the input      *)
(* buffer alone (the new character arrives through onChange).              *)
(***************************************************************************)
C21_TypingResetsCursorOnly ==
  [][(KeyChar /\ historyIndex # -1) =>
       /\ historyIndex' = -1
       /\ UNCHANGED <<commandHistory, currentCommand, sessions, activeSessionId,
                      isLoading, abortControllerRef, calls>>]_vars

\* The second command of the list was recalled and a key was typed on it:
\* nothing is selected any more and the recalled text is still in the input
\* line.
C21_Witness ==
  /\ historyIndex = -1
  /\ Len(commandHistory) = 50
  /\ currentCommand = commandHistory[2]
  /\ currentCommand \notin HistoryInputs
  /\ ~isLoading
  /\ calls = {}
  /\ TotalEntries(sessions) = 0

(***************************************************************************)
(* C22.  The command history list is updated in the step of the submit and *)
(* not by the outcome: an accepted submit of c leaves c at the front of    *)
(* the list; the steps in which the request settles (success, service      *)
(* error, failure), the aborted call returns or the user cancels leave the *)
(* list as it is; so the command of every pending call is in the list.     *)
(***************************************************************************)
C22_HistoryAtSubmit ==
  /\ [][/\ Accepted =>
             commandHistory' # <<>> /\ Head(commandHistory') = currentCommand
        /\ \A c \in calls :
             ((\E outcome \in Outcomes : Settles(c, outcome)) \/ Aborts(c)) =>
               commandHistory' = commandHistory
        /\ (KeyCtrlC /\ isLoading) => commandHistory' = commandHistory]_vars
  /\ [](\A c \in calls : c.command \in Elements(commandHistory))

\* The execution failed at the transport: the failure is on screen and the
\* command is still the first of the command history list.
C22_Witness ==
  /\ ~isLoading
  /\ calls = {}
  /\ commandHistory = << <<"a">> >>
  /\ \E i \in 1..Len(sessions) :
       sessions[i].history = <<CommandEntry(<<"a">>), FailureEntry(NET_MESSAGE)>>

(***************************************************************************)
(* C23.  Submit is a no-op when the text trimmed is empty or when there is *)
(* no active session: Enter then changes nothing at all, so no entry is    *)
(* appended to any session, the command history list, the busy flag and    *)
(* the in-flight token are as they were, and no request is sent.           *)
(***************************************************************************)
C23_EmptySubmitIsNoOp ==
  [][(KeyEnter /\ (Trim(currentCommand) = EMPTY \/ activeSessionId = EMPTY)) =>
       UNCHANGED vars]_vars

\* A command is typed and there is no active session: Enter is pressed on
\* it and nothing is run.
C23_Witness ==
  /\ activeSessionId = EMPTY
  /\ currentCommand = <<"a">>
  /\ ~isLoading
  /\ calls = {}
  /\ commandHistory = <<>>

(***************************************************************************)
(* C24.  When the response is a JSON body with an error payload, the step  *)
(* that receives it appends exactly one error entry holding that payload   *)
(* to the session that issued the command and nothing else, whatever       *)
(* stdout and stderr the body also carries.                                *)
(***************************************************************************)
C24_ErrorPayloadOnly ==
  [][\A c \in calls, outcome \in Outcomes :
       (Settles(c, outcome) /\ outcome.kind = "json"
          /\ outcome.result.error # EMPTY) =>
         AppendedOnlyTo(sessions, sessions', c.sid,
                        <<TerminalEntry("error", outcome.result.error)>>)]_vars

\* The service answered with an error payload: the command entry is
\* followed by that payload as an error entry and by nothing else.
C24_Witness ==
  /\ ~isLoading
  /\ calls = {}
  /\ abortControllerRef = null
  /\ \E i \in 1..Len(sessions) :
       sessions[i].history =
         <<CommandEntry(<<"a">>), TerminalEntry("error", <<"x">>)>>

(***************************************************************************)
(* C25.  When the response is a JSON body without an error payload, the    *)
(* step that receives it appends to the issuing session an output entry    *)
(* if and only if stdout is not empty and an error entry if and only if    *)
(* stderr is not empty, the output entry first, each holding the text as   *)
(* it was received.                                                        *)
(***************************************************************************)
SuccessEntries(stdout, stderr) ==
  CASE stdout = EMPTY /\ stderr = EMPTY -> <<>>
    [] stdout # EMPTY /\ stderr = EMPTY -> <<[type |-> "output", content |-> stdout]>>
    [] stdout = EMPTY /\ stderr # EMPTY -> <<[type |-> "error", content |-> stderr]>>
    [] stdout # EMPTY /\ stderr # EMPTY ->
         <<[type |-> "output", content |-> stdout],
           [type |-> "error", content |-> stderr]>>

C25_StdoutThenStderr ==
  [][\A c \in calls, outcome \in Outcomes :
       (Settles(c, outcome) /\ outcome.kind = "json"
          /\ outcome.result.error = EMPTY) =>
         AppendedOnlyTo(sessions, sessions', c.sid,
                        SuccessEntries(outcome.result.stdout,
                                       outcome.result.stderr))]_vars

\* The command wrote to both streams: its output entry and then its error
\* entry follow the command entry, blanks included.
C25_Witness ==
  /\ ~isLoading
  /\ calls = {}
  /\ \E i \in 1..Len(sessions) :
       sessions[i].history =
         <<CommandEntry(<<"a">>),
           TerminalEntry("output", <<" ", "o">>),
           TerminalEntry("error", <<"e", " ">>)>>

(***************************************************************************)
(* C26.  When the execution fails for a reason other than cancellation     *)
(* (the transport fails, the status is not 2xx, the body is no JSON), the  *)
(* step that receives the failure appends exactly one error entry to the   *)
(* issuing session, whose content is "Failed to execute command: "         *)
(* followed by the message of the failure, and leaves the manager idle:    *)
(* busy flag false and no in-flight token.                                 *)
(***************************************************************************)
C26_FailureReportedOnce ==
  [][\A c \in calls, outcome \in Outcomes :
       (Settles(c, outcome) /\ outcome.kind \in {"network", "status", "syntax"}) =>
         /\ \E message \in {NET_MESSAGE, HTTP_MESSAGE, SYNTAX_MESSAGE} :
              AppendedOnlyTo(sessions, sessions', c.sid,
                <<[type |-> "error",
                   content |-> <<"Failed to execute command: ">> \o message]>>)
         /\ ~isLoading'
         /\ abortControllerRef' = null
         /\ calls' = calls \ {c}]_vars

\* The body of the response was no JSON: one failure entry follows the
\* command entry and the manager is idle.
C26_Witness ==
  /\ ~isLoading
  /\ calls = {}
  /\ abortControllerRef = null
  /\ \E i \in 1..Len(sessions) :
       sessions[i].history =
         <<CommandEntry(<<"a">>),
           TerminalEntry("error", FAILED_PREFIX \o SYNTAX_MESSAGE)>>

(***************************************************************************)
(* C27.  No automatic retry: a request is sent only by the step of an      *)
(* accepted submit, which sends exactly one, for the command submitted and *)
(* on behalf of the active session; the step in which a request settles or *)
(* an aborted call returns takes that call away and sends nothing, and     *)
(* cancel sends nothing.  A call whose signal is not aborted exists only   *)
(* while the busy flag is set, so none is counted twice.                   *)
(***************************************************************************)
C27_NoRetry ==
  /\ [][/\ (LiveCalls' \ LiveCalls # {}) =>
             /\ Accepted
             /\ LiveCalls' \ LiveCalls =
                  {Call(activeSessionId, currentCommand, FALSE)}
        /\ \A c \in calls :
             ((\E outcome \in Outcomes : Settles(c, outcome)) \/ Aborts(c)) =>
               calls' = calls \ {c}
        /\ (KeyCtrlC /\ isLoading) =>
             LiveCalls' = {} /\ Requests(calls') = Requests(calls)]_vars
  /\ [](LiveCalls # {} => isLoading)

\* The command of the second tab failed with a status that is not 2xx: the
\* failure is reported once, no request is pending and the manager is idle
\* with an empty input line.
C27_Witness ==
  /\ ~isLoading
  /\ calls = {}
  /\ abortControllerRef = null
  /\ currentCommand = EMPTY
  /\ commandHistory = << <<"a">> >>
  /\ Len(sessions) = 2
  /\ sessions[1].history = <<>>
  /\ sessions[2].history = <<CommandEntry(<<"a">>), FailureEntry(HTTP_MESSAGE)>>

(***************************************************************************)
(* C28.  Persistence mirrors state: in every reachable state durable       *)
(* storage holds the current session collection under one key (what is     *)
(* stored is the serialization of the collection and parses back to it)    *)
(* and the current active-session id under the other.                      *)
(***************************************************************************)
C28_StorageMirrorsState ==
  /\ STORAGE_KEY \in DOMAIN localStorage
  /\ ACTIVE_TAB_KEY \in DOMAIN localStorage
  /\ localStorage[STORAGE_KEY] = JSONstringify(sessions)
  /\ JSONparse(localStorage[STORAGE_KEY]) = sessions
  /\ localStorage[ACTIVE_TAB_KEY] = activeSessionId

(***************************************************************************)
(* C29.  Restore with a stale active id: when storage holds a session      *)
(* collection that is not empty and a tab id that is the id of none of its *)
(* sessions (or the empty string, or no tab id), startup restores the      *)
(* collection as stored and makes its first session the active one; the    *)
(* active pointer is not left empty.                                       *)
(***************************************************************************)
StaleActiveTab(ls) ==
  /\ STORAGE_KEY \in DOMAIN ls
  /\ ~SyntaxError(ls[STORAGE_KEY])
  /\ JSONparse(ls[STORAGE_KEY]) # <<>>
  /\ \/ ACTIVE_TAB_KEY \notin DOMAIN ls
     \/ \A i \in 1..Len(JSONparse(ls[STORAGE_KEY])) :
          JSONparse(ls[STORAGE_KEY])[i].id # ls[ACTIVE_TAB_KEY]

C29_StaleActiveRestored ==
  [][(Reload /\ StaleActiveTab(localStorage)) =>
       /\ sessions' # <<>>
       /\ JSONstringify(sessions') = localStorage[STORAGE_KEY]
       /\ activeSessionId' = sessions'[1].id
       /\ activeSessionId' # EMPTY]_vars

\* The page is about to start on two stored sessions and the tab id of a
\* session deleted since.
C29_Witness ==
  /\ sessions = <<>>
  /\ STORAGE_KEY \in DOMAIN localStorage
  /\ ~SyntaxError(localStorage[STORAGE_KEY])
  /\ Len(JSONparse(localStorage[STORAGE_KEY])) = 2
  /\ ACTIVE_TAB_KEY \in DOMAIN localStorage
  /\ localStorage[ACTIVE_TAB_KEY] = toString(3)

(***************************************************************************)
(* C30.  Restore with no durable state: when storage holds no session      *)
(* collection, startup creates exactly one session, with id "1", name      *)
(* "Terminal 1" and empty history, and makes it the active session,        *)
(* whatever tab id storage holds.                                          *)
(***************************************************************************)
C30_DefaultSession ==
  [][(Reload /\ STORAGE_KEY \notin DOMAIN localStorage) =>
       /\ sessions' = <<[id |-> <<"1">>, name |-> <<"Terminal ", "1">>,
                         history |-> <<>>]>>
       /\ activeSessionId' = <<"1">>]_vars

\* The page is about to start on a storage that holds the tab id 2 and no
\* session collection.
C30_Witness ==
  /\ sessions = <<>>
  /\ activeSessionId = EMPTY
  /\ STORAGE_KEY \notin DOMAIN localStorage
  /\ ACTIVE_TAB_KEY \in DOMAIN localStorage
  /\ localStorage[ACTIVE_TAB_KEY] = toString(2)

(***************************************************************************)
(* C31.  Malformed persisted state: when storage holds session data that   *)
(* cannot be parsed, startup leads to the default bootstrap: exactly one   *)
(* session, with id "1", which is the active session.                      *)
(***************************************************************************)
Unparsable(ls) ==
  /\ STORAGE_KEY \in DOMAIN ls
  /\ SyntaxError(ls[STORAGE_KEY])

C31_MalformedFallsBack ==
  Unparsable(localStorage)
    ~> (sessions = <<initialSession>> /\ activeSessionId = <<"1">>)

(***************************************************************************)
(* C32.  Round trip: in every reachable state, running the save effects on *)
(* the session collection and the active id and then the load effect on    *)
(* what storage holds gives back the same ordered collection (ids, names,  *)
(* and every entry's kind and content) and the same active id.             *)
(***************************************************************************)
C32_RoundTrip ==
  LET persisted == SaveActiveTab(activeSessionId, SaveSessions(sessions, localStorage))
  IN  /\ LoadSessions(persisted) = sessions
      /\ LoadActiveTab(persisted) = activeSessionId

(***************************************************************************)
(* C33.  The command history list and its cursor are not persisted: after  *)
(* a reload of the page the list is empty and the cursor is -1, whatever   *)
(* was submitted before, while every session is back with its scrollback   *)
(* as storage holds it.                                                    *)
(***************************************************************************)
C33_CommandHistoryNotPersisted ==
  [][Reload =>
       /\ commandHistory' = <<>>
       /\ historyIndex' = -1
       /\ Len(sessions') >= Len(sessions)
       /\ \A i \in 1..Len(sessions) : sessions'[i] = sessions[i]
       /\ sessions' = JSONparse(localStorage[STORAGE_KEY])]_vars

\* The page was reloaded after the command a was run: its entries are in the
\* scrollback and the command history list is empty.
C33_Witness ==
  /\ commandHistory = <<>>
  /\ historyIndex = -1
  /\ calls = {}
  /\ Len(sessions) = 1
  /\ sessions[1].history = <<CommandEntry(<<"a">>), TerminalEntry("output", <<" ", "o">>)>>

(***************************************************************************)
(* C34.  Scrollback is append-only.  In every step that does not shorten   *)
(* the collection each session keeps its place, id and name, and its new   *)
(* history either begins with its old history or is empty because the step *)
(* is an explicit clear (Ctrl+L or the clear command) of that session, the *)
(* active one.  The collection gets shorter only in a closeTab step, and   *)
(* the sessions that are left are as they were.                            *)
(***************************************************************************)
IsPrefix(a, b) == Len(a) <= Len(b) /\ SubSeq(b, 1, Len(a)) = a

ExplicitClear ==
  \/ KeyCtrlL
  \/ KeyEnter /\ ~isLoading /\ activeSessionId # EMPTY /\ Trim(currentCommand) = CLEAR

C34_AppendOnly ==
  [][IF Len(sessions') < Len(sessions)
     THEN \E id \in SessionIds :
            /\ closeTab(id)
            /\ sessions' = SelectSeq(sessions, LAMBDA s : s.id # id)
     ELSE \A i \in 1..Len(sessions) :
            /\ sessions'[i].id = sessions[i].id
            /\ sessions'[i].name = sessions[i].name
            /\ \/ IsPrefix(sessions[i].history, sessions'[i].history)
               \/ /\ sessions'[i].history = <<>>
                  /\ sessions[i].id = activeSessionId
                  /\ ExplicitClear]_vars

\* A command was run in the first session and reported an error; a second
\* tab was opened afterwards.
C34_Witness ==
  /\ Len(sessions) = 2
  /\ sessions[1].history = <<CommandEntry(<<"a">>), TerminalEntry("error", <<"x">>)>>
  /\ sessions[2].history = <<>>
  /\ activeSessionId = sessions[2].id
  /\ calls = {}

(***************************************************************************)
(* C35.  Cancel after a session switch: when the command in flight was     *)
(* submitted on a session other than the one that is active now, Ctrl+C    *)
(* appends the ^C error entry to the session that issued the command and   *)
(* leaves the active session's history, and every other, unchanged.        *)
(***************************************************************************)
C35_CancelGoesToIssuer ==
  [][(/\ KeyCtrlC
      /\ isLoading
      /\ \E c \in LiveCalls : c.sid # activeSessionId /\ find(sessions, c.sid) # {}) =>
       \E c \in LiveCalls :
         AppendedOnlyTo(sessions, sessions', c.sid, <<CancelEntry>>)]_vars

(***************************************************************************)
(* C36.  Cancel followed by a new submit.  While a cancelled call is still *)
(* outstanding, a submit of a command is accepted at once: it sets the     *)
(* busy flag, installs its own controller and sends its request.  When the *)
(* cancelled call resolves it changes no scrollback, leaves the busy flag  *)
(* and the controller as they are and leaves the newer request pending.    *)
(* No step leaves more than one call whose signal is not aborted.          *)
(***************************************************************************)
C36_CancelledCallIsInert ==
  [][/\ (KeyEnter /\ Accepted /\ \E c \in calls : c.aborted) =>
          /\ isLoading'
          /\ abortControllerRef' = Controller(activeSessionId, currentCommand)
          /\ LiveCalls' = {Call(activeSessionId, currentCommand, FALSE)}
     /\ \A c \in calls :
          Aborts(c) =>
            /\ UNCHANGED <<sessions, isLoading, abortControllerRef>>
            /\ LiveCalls' = LiveCalls
     /\ Cardinality(LiveCalls') <= 1]_vars

\* The newer command is in flight, in the second tab, while the call that
\* was cancelled in the first tab has not resolved yet.
C36_Witness ==
  /\ isLoading
  /\ Cardinality(calls) = 2
  /\ \E c \in calls :
       /\ c.aborted
       /\ c.sid # activeSessionId
  /\ \E d \in LiveCalls :
       /\ d.sid = activeSessionId
       /\ abortControllerRef = Controller(d.sid, d.command)
       /\ \E i \in activeSession : sessions[i].history = <<CommandEntry(d.command)>>

(***************************************************************************)
(* C37.  Close during flight: when the session that issued the command in  *)
(* flight has been closed, the response adds no entry to any session of    *)
(* the collection and changes nothing else of it nor the active id, and    *)
(* the busy flag and the controller are cleared.  In CloseSpec the issuing *)
(* session has been closed exactly when no session with the call's id      *)
(* holds the call's command entry.                                         *)
(***************************************************************************)
IssuerClosed(c) ==
  \A i \in find(sessions, c.sid) :
    \A k \in 1..Len(sessions[i].history) :
      sessions[i].history[k] # CommandEntry(c.command)

C37_ResultDropped ==
  [][\A c \in LiveCalls, outcome \in Outcomes :
       (Settles(c, outcome) /\ IssuerClosed(c)) =>
         /\ sessions' = sessions
         /\ activeSessionId' = activeSessionId
         /\ ~isLoading'
         /\ abortControllerRef' = null]_vars

(***************************************************************************)
(* C38.  Empty result: when the request settles with a JSON result that    *)
(* has no error payload and whose stdout and stderr are both empty, no     *)
(* session changes, so the command entry stays the last entry of that      *)
(* submission, and the busy flag and the controller are cleared.           *)
(***************************************************************************)
EmptyResult ==
  [kind |-> "json", result |-> [error |-> EMPTY, stdout |-> EMPTY, stderr |-> EMPTY]]

C38_EmptyResultAddsNothing ==
  [][\A c \in LiveCalls :
       Settles(c, EmptyResult) =>
         /\ sessions' = sessions
         /\ ~isLoading'
         /\ abortControllerRef' = null
         /\ calls' = calls \ {c}]_vars

\* The command a, run in the first session, has completed with nothing to
\* show while the second tab was in front.
C38_Witness ==
  /\ ~isLoading
  /\ abortControllerRef = null
  /\ calls = {}
  /\ commandHistory = << <<"a">> >>
  /\ Len(sessions) = 2
  /\ sessions[1].history = <<CommandEntry(<<"a">>)>>
  /\ sessions[2].history = <<>>
  /\ activeSessionId = sessions[2].id
  /\ activeSessionId # sessions[1].id

(***************************************************************************)
(* C39.  Interrupt while idle: Ctrl+C with no command in flight appends    *)
(* exactly one entry, of kind command and with content "$ " followed by    *)
(* the input as typed and "^C", to the active session, and empties the     *)
(* input; it sends no request and leaves the busy flag, the controller,    *)
(* the command history list and its cursor, and the active id unchanged.   *)
(***************************************************************************)
C39_IdleInterrupt ==
  [][(KeyCtrlC /\ ~isLoading) =>
       /\ AppendedOnlyTo(sessions, sessions', activeSessionId,
            <<TerminalEntry("command", PROMPT \o currentCommand \o CTRL_C)>>)
       /\ currentCommand' = EMPTY
       /\ UNCHANGED <<isLoading, abortControllerRef, calls, commandHistory,
                      historyIndex, activeSessionId>>]_vars

\* Ctrl+C was pressed on the typed, unsubmitted line " clear".
C39_Witness ==
  /\ ~isLoading
  /\ calls = {}
  /\ abortControllerRef = null
  /\ commandHistory = <<>>
  /\ currentCommand = EMPTY
  /\ \E i \in activeSession :
       sessions[i].history =
         <<TerminalEntry("command", PROMPT \o <<" ">> \o CLEAR \o CTRL_C)>>

=============================================================================
